---- MODULE Spec2Model ----
(***************************************************************************)
(* Model of the two benchmark harnesses                                    *)
(*   rust_tokio/src/main.rs      (tokio,     task count parsed as i32)     *)
(*   rust_async_std/src/main.rs  (async-std, task count parsed as usize)   *)
(* Both are started on the same argument list.  Each program has its own   *)
(* logical clock `now`, in seconds: statements of main take no logical     *)
(* time except that the clock may advance between iterations of the        *)
(* spawning loop, and while main is suspended in the join the clock        *)
(* advances only when no timer is due and main has not been woken.         *)
(* Integers that may exceed the model checker's native range are kept as   *)
(* decimal magnitudes (sequences of digits, most significant first).       *)
(***************************************************************************)
EXTENDS Integers, Sequences, FiniteSets, TLC

\* ---------------------------------------------------------------- bounds
MaxTasks == 2
MaxSpawnTicks == 1

\* ------------------------------------------------------ program constants
SleepSecs == 10

Programs == {"tokio", "async_std"}

I32_MAX == <<2,1,4,7,4,8,3,6,4,7>>
I32_MIN_MAG == <<2,1,4,7,4,8,3,6,4,8>>
I32_MIN_MAG_PLUS_1 == <<2,1,4,7,4,8,3,6,4,9>>
USIZE_MAX == <<1,8,4,4,6,7,4,4,0,7,3,7,0,9,5,5,1,6,1,5>>
USIZE_MAX_PLUS_1 == <<1,8,4,4,6,7,4,4,0,7,3,7,0,9,5,5,1,6,1,6>>

NoDeadline == -1

\* --------------------------------------------------- decimal magnitudes
DigitChars == <<"0", "1", "2", "3", "4", "5", "6", "7", "8", "9">>

IsDigit(c) == \E d \in 1..10 : DigitChars[d] = c

DigitVal(c) == (CHOOSE d \in 1..10 : DigitChars[d] = c) - 1

\* drops leading zeros, keeping at least one digit
Strip(m) ==
    LET nz == { k \in 1..Len(m) : m[k] # 0 \/ k = Len(m) }
        first == CHOOSE k \in nz : \A j \in nz : k <= j
    IN  IF m = <<>> THEN m ELSE SubSeq(m, first, Len(m))

\* a <= b, for magnitudes of equal length
LexLeq(a, b) ==
    \/ a = b
    \/ \E k \in 1..Len(a) : a[k] < b[k] /\ \A j \in 1..(k - 1) : a[j] = b[j]

MagLeq(a, b) == \/ Len(a) < Len(b)
                \/ Len(a) = Len(b) /\ LexLeq(a, b)

RECURSIVE ToMag(_)
ToMag(n) == IF n < 10 THEN <<n>> ELSE Append(ToMag(n \div 10), n % 10)

ToChars(m) == [k \in 1..Len(m) |-> DigitChars[m[k] + 1]]

Zero == [neg |-> FALSE, mag |-> <<0>>]

\* n < v, for a native non-negative n and a parsed value v
Lt(n, v) == ~v.neg /\ ~MagLeq(v.mag, ToMag(n))

\* n = v
Eq(n, v) == ~v.neg /\ v.mag = ToMag(n)

\* ------------------------------------------------------------ str::parse
ParseErr(k) == [ok |-> FALSE, kind |-> k, val |-> Zero]
ParseOk(isNeg, m) == [ok |-> TRUE, kind |-> "none",
                      val |-> [neg |-> isNeg /\ m # <<0>>, mag |-> m]]

\* index of the first character of ds that is no digit, Len(ds) + 1 if none
FirstNonDigit(ds) ==
    LET bad == { k \in 1..Len(ds) : ~IsDigit(ds[k]) } \cup { Len(ds) + 1 }
    IN  CHOOSE k \in bad : \A j \in bad : k <= j

\* the accumulator after the first k digits of ds: result * 10 + digit, k times
Accumulated(ds, acc, k) == Strip(acc \o [j \in 1..k |-> DigitVal(ds[j])])

\* the steps of the digit loop at which the checked arithmetic overflows
Overflows(ds, acc, limit) ==
    { k \in 1..(FirstNonDigit(ds) - 1) : ~MagLeq(Accumulated(ds, acc, k), limit) }

\* (variant) stops at the first character that is no digit, as C's atoi does
AccumulateLenient(ds, acc, isNeg, limit) ==
    IF Overflows(ds, acc, limit) # {}
    THEN ParseErr(IF isNeg THEN "NegOverflow" ELSE "PosOverflow")
    ELSE ParseOk(isNeg, Accumulated(ds, acc, FirstNonDigit(ds) - 1))

\* the digit loop: each digit is checked, then added with checked arithmetic
Accumulate(ds, acc, isNeg, limit) ==
    IF Overflows(ds, acc, limit) # {}
    THEN ParseErr(IF isNeg THEN "NegOverflow" ELSE "PosOverflow")
    ELSE IF FirstNonDigit(ds) <= Len(ds) THEN ParseErr("InvalidDigit")
    ELSE ParseOk(isNeg, Accumulated(ds, acc, Len(ds)))

from_str_radix(s, isSigned, minMag, maxMag) ==
    IF s = <<>> THEN ParseErr("Empty")
    ELSE IF Head(s) \in {"+", "-"} /\ Len(s) = 1 THEN ParseErr("InvalidDigit")
    ELSE IF Head(s) = "+" THEN Accumulate(Tail(s), <<0>>, FALSE, maxMag)
    ELSE IF Head(s) = "-" /\ isSigned THEN Accumulate(Tail(s), <<0>>, TRUE, minMag)
    ELSE Accumulate(s, <<0>>, FALSE, maxMag)

parse_i32(s) == from_str_radix(s, TRUE, I32_MIN_MAG, I32_MAX)

\* (variant) the unsigned parse takes a sign, as the signed one does
parse_usize_signed(s) == from_str_radix(s, TRUE, USIZE_MAX, USIZE_MAX)

parse_usize(s) == from_str_radix(s, FALSE, <<0>>, USIZE_MAX)

parse(p, s) == IF p = "tokio" THEN parse_i32(s) ELSE parse_usize(s)

\* ------------------------------------------------------- argument lists
ProgName == <<"p">>

SmallCounts == { ToChars(ToMag(n)) : n \in 0..MaxTasks }

OddStrings == { <<>>, <<"a", "b", "c">>, <<"1", "a">>, <<"-">>, <<"+">>,
                <<"-", "0">>, <<"-", "1">>, <<"+", "1">>, <<"0", "1">>,
                ToChars(I32_MAX), ToChars(I32_MIN_MAG),
                <<"-">> \o ToChars(I32_MIN_MAG),
                <<"-">> \o ToChars(I32_MIN_MAG_PLUS_1),
                ToChars(USIZE_MAX), ToChars(USIZE_MAX_PLUS_1) }

ArgLists == { <<ProgName>> } \cup { <<ProgName, s>> : s \in SmallCounts \cup OddStrings }

\* ---------------------------------------------------------------- state
VARIABLES args, pc, exit, num_tasks, i, tasks, now, woken, joinStart

vars == <<args, pc, exit, num_tasks, i, tasks, now, woken, joinStart>>

Init ==
    /\ args \in ArgLists
    /\ pc = [p \in Programs |-> "Start"]
    /\ exit = [p \in Programs |-> "none"]
    /\ num_tasks = [p \in Programs |-> Zero]
    /\ i = [p \in Programs |-> 0]
    /\ tasks = [p \in Programs |-> <<>>]
    /\ now = [p \in Programs |-> 0]
    /\ woken = [p \in Programs |-> FALSE]
    /\ joinStart = [p \in Programs |-> 0]

\* ----------------------------------------------------- delay operations
\* tokio::time::sleep fixes its deadline when it is called
tokio_sleep(t) == [dur |-> SleepSecs, deadline |-> t + SleepSecs, st |-> "created"]

\* async_std::task::sleep is an async fn: its timer is set at the first poll
async_std_sleep(t) == [dur |-> SleepSecs, deadline |-> NoDeadline, st |-> "created"]

sleep(p, t) == IF p = "tokio" THEN tokio_sleep(t) ELSE async_std_sleep(t)

\* one poll of a delay operation at time t
PollDelay(d, t) ==
    CASE d.st = "created" ->
            LET dl == IF d.deadline = NoDeadline THEN t + d.dur ELSE d.deadline
            IN  [d EXCEPT !.deadline = dl,
                          !.st = IF dl <= t THEN "done" ELSE "pending"]
      [] d.st = "pending" -> d
      [] d.st = "fired" -> [d EXCEPT !.st = "done"]
      [] d.st = "done" -> d

\* (variant) the delays are awaited one after the other: only the first
\* element that is not done is polled
PollSequential(ts, t) ==
    [k \in 1..Len(ts) |->
        IF ts[k].st # "done" /\ \A j \in 1..(k - 1) : ts[j].st = "done"
        THEN PollDelay(ts[k], t) ELSE ts[k]]

\* join_all polls every element that is not done yet
PollAll(ts, t) == [k \in 1..Len(ts) |-> PollDelay(ts[k], t)]

AllDone(ts) == \A k \in 1..Len(ts) : ts[k].st = "done"

Due(p) == { k \in 1..Len(tasks[p]) :
              tasks[p][k].st = "pending" /\ tasks[p][k].deadline <= now[p] }

Pending(p) == { k \in 1..Len(tasks[p]) : tasks[p][k].st = "pending" }

\* -------------------------------------------------------------- actions
CollectArgs(p) ==
    /\ pc[p] = "Start"
    /\ pc' = [pc EXCEPT ![p] = "Parsing"]
    /\ UNCHANGED <<args, exit, num_tasks, i, tasks, now, woken, joinStart>>

\* args[1]: indexing past the end of the vector panics
IndexPanics == Len(args) < 2

\* (variant) a missing argument counts as 0
ParseOrDefault(p) ==
    /\ pc[p] = "Parsing"
    /\ IF ~IndexPanics /\ ~parse(p, args[2]).ok
       THEN /\ pc' = [pc EXCEPT ![p] = "Terminated"]
            /\ exit' = [exit EXCEPT ![p] = "failure"]
            /\ UNCHANGED num_tasks
       ELSE /\ pc' = [pc EXCEPT ![p] = "Spawning"]
            /\ num_tasks' = [num_tasks EXCEPT ![p] =
                                IF IndexPanics THEN Zero ELSE parse(p, args[2]).val]
            /\ UNCHANGED exit
    /\ UNCHANGED <<args, i, tasks, now, woken, joinStart>>

\* args[1].parse::<T>().unwrap(): a missing argument or a parse error panics
Parse(p) ==
    /\ pc[p] = "Parsing"
    /\ IF IndexPanics \/ ~parse(p, args[2]).ok
       THEN /\ pc' = [pc EXCEPT ![p] = "Terminated"]
            /\ exit' = [exit EXCEPT ![p] = "failure"]
            /\ UNCHANGED num_tasks
       ELSE /\ pc' = [pc EXCEPT ![p] = "Spawning"]
            /\ num_tasks' = [num_tasks EXCEPT ![p] = parse(p, args[2]).val]
            /\ UNCHANGED exit
    /\ UNCHANGED <<args, i, tasks, now, woken, joinStart>>

\* (variant) inclusive range 0..=num_tasks
LoopContinuesInclusive(p) == ~num_tasks[p].neg /\ MagLeq(ToMag(i[p]), num_tasks[p].mag)

\* for _ in 0..num_tasks
LoopContinues(p) == Lt(i[p], num_tasks[p])

\* (variant) creating the delay fails and the program panics
SpawnPanics(p) ==
    /\ pc[p] = "Spawning"
    /\ LoopContinues(p)
    /\ Len(tasks[p]) < MaxTasks
    /\ pc' = [pc EXCEPT ![p] = "Terminated"]
    /\ exit' = [exit EXCEPT ![p] = "failure"]
    /\ UNCHANGED <<args, num_tasks, i, tasks, now, woken, joinStart>>

Spawn(p) ==
    /\ pc[p] = "Spawning"
    /\ LoopContinues(p)
    /\ Len(tasks[p]) < MaxTasks
    /\ tasks' = [tasks EXCEPT ![p] = Append(@, sleep(p, now[p]))]
    /\ i' = [i EXCEPT ![p] = @ + 1]
    /\ UNCHANGED <<args, pc, exit, num_tasks, now, woken, joinStart>>

LoopExit(p) ==
    /\ pc[p] = "Spawning"
    /\ ~LoopContinues(p)
    /\ pc' = [pc EXCEPT ![p] = "Joining"]
    /\ woken' = [woken EXCEPT ![p] = TRUE]
    /\ joinStart' = [joinStart EXCEPT ![p] = now[p]]
    /\ UNCHANGED <<args, exit, num_tasks, i, tasks, now>>

\* (variant) the join resolves as soon as one element is done (a select)
JoinReadyAny(ts) == ts = <<>> \/ \E k \in 1..Len(ts) : ts[k].st = "done"

\* (variant) the join of an empty collection never resolves
JoinReadyNonEmpty(ts) == ts # <<>> /\ AllDone(ts)

\* join_all is ready when every element is done (an empty collection is)
JoinReady(ts) == AllDone(ts)

JoinPoll(p) ==
    /\ pc[p] = "Joining"
    /\ woken[p]
    /\ LET polled == PollAll(tasks[p], now[p])
       IN  /\ tasks' = [tasks EXCEPT ![p] = polled]
           /\ IF JoinReady(polled)
              THEN /\ pc' = [pc EXCEPT ![p] = "Terminated"]
                   /\ exit' = [exit EXCEPT ![p] = "success"]
              ELSE UNCHANGED <<pc, exit>>
    /\ woken' = [woken EXCEPT ![p] = FALSE]
    /\ UNCHANGED <<args, num_tasks, i, now, joinStart>>

\* (variant) the timer marks the delay elapsed but does not wake main
TimerFireNoWake(p) ==
    /\ pc[p] = "Joining"
    /\ \E k \in Due(p) :
          tasks' = [tasks EXCEPT ![p][k].st = "fired"]
    /\ UNCHANGED <<args, pc, exit, num_tasks, i, now, woken, joinStart>>

TimerFire(p) ==
    /\ pc[p] = "Joining"
    /\ \E k \in Due(p) :
          tasks' = [tasks EXCEPT ![p][k].st = "fired"]
    /\ woken' = [woken EXCEPT ![p] = TRUE]
    /\ UNCHANGED <<args, pc, exit, num_tasks, i, now, joinStart>>

Tick(p) ==
    /\ \/ pc[p] = "Spawning" /\ now[p] < MaxSpawnTicks
       \/ pc[p] = "Joining" /\ ~woken[p] /\ Due(p) = {} /\ Pending(p) # {}
    /\ now' = [now EXCEPT ![p] = @ + 1]
    /\ UNCHANGED <<args, pc, exit, num_tasks, i, tasks, woken, joinStart>>

Step(p) ==
    \/ CollectArgs(p)
    \/ Parse(p)
    \/ Spawn(p)
    \/ LoopExit(p)
    \/ JoinPoll(p)
    \/ TimerFire(p)
    \/ Tick(p)

Next == \E p \in Programs : Step(p)

Spec == Init /\ [][Next]_vars

Fairness == \A p \in Programs :
    /\ WF_vars(CollectArgs(p))
    /\ WF_vars(Parse(p))
    /\ WF_vars(Spawn(p))
    /\ WF_vars(LoopExit(p))
    /\ WF_vars(JoinPoll(p))
    /\ WF_vars(TimerFire(p))
    /\ WF_vars(Tick(p))

FairSpec == Spec /\ Fairness

TypeOK ==
    /\ args \in ArgLists
    /\ \A p \in Programs :
        /\ pc[p] \in {"Start", "Parsing", "Spawning", "Joining", "Terminated"}
        /\ exit[p] \in {"none", "success", "failure"}
        /\ i[p] \in 0..MaxTasks
        /\ now[p] \in 0..(MaxSpawnTicks + SleepSecs)

\* ------------------------------------------------------------ vocabulary
Success(p) == pc[p] = "Terminated" /\ exit[p] = "success"

Failure(p) == pc[p] = "Terminated" /\ exit[p] = "failure"

\* parsing has succeeded and num_tasks holds the parsed value
ParsedOK(p) == pc[p] \in {"Spawning", "Joining"} \/ Success(p)

\* main is suspended in the join, waiting to be woken
Suspended(p) == pc[p] = "Joining" /\ ~woken[p]

Count(p) == Len(tasks[p])

\* n <= v
AtMost(n, v) == n = 0 \/ Lt(n - 1, v)

\* the argument list holds argument 1
HasArg == Len(args) >= 2

\* argument 1 is not of the form [+-]?[0-9]+
NotAnInteger(s) ==
    LET body == IF s # <<>> /\ Head(s) \in {"+", "-"} THEN Tail(s) ELSE s
    IN  body = <<>> \/ \E k \in 1..Len(body) : ~IsDigit(body[k])

\* argument 1 is "-" followed by digits that are not all zero
NegativeArg(s) ==
    /\ Len(s) >= 2
    /\ Head(s) = "-"
    /\ \A k \in 2..Len(s) : IsDigit(s[k])
    /\ \E k \in 2..Len(s) : s[k] # "0"

\* the digits of a negative argument, as a magnitude
NegMag(s) == Strip([k \in 1..(Len(s) - 1) |-> DigitVal(s[k + 1])])

\* argument 1 is a non-negative count the model spawns in full, for program p
ValidCount(p) ==
    /\ HasArg
    /\ parse(p, args[2]).ok
    /\ ~parse(p, args[2]).val.neg
    /\ MagLeq(parse(p, args[2]).val.mag, ToMag(MaxTasks))

\* ------------------------------------------------------------------- C1
\* C1: join barrier.  In every state where a program has terminated
\* successfully, all the delays it was asked for exist, every one of them is
\* done, and every one's deadline has been reached on the program's clock;
\* and while any delay is not done the program has not left the join.
C1_JoinBarrier ==
    \A p \in Programs :
        /\ Success(p) =>
              /\ Eq(Count(p), num_tasks[p]) \/ (num_tasks[p].neg /\ Count(p) = 0)
              /\ \A k \in 1..Count(p) :
                    /\ tasks[p][k].st = "done"
                    /\ tasks[p][k].deadline # NoDeadline
                    /\ tasks[p][k].deadline <= now[p]
        /\ (\E k \in 1..Count(p) : tasks[p][k].st # "done") =>
              pc[p] \in {"Spawning", "Joining"}

C1_Witness ==
    \A p \in Programs : Success(p) /\ Count(p) = MaxTasks

\* ------------------------------------------------------------------- C2
\* C2: under fair scheduling, every run started on a parseable non-negative
\* count (within the number of delays the model creates) eventually
\* terminates successfully, in either program.
C2_Terminates ==
    \A p \in Programs : ValidCount(p) ~> Success(p)

C2_Witness ==
    \A p \in Programs : ValidCount(p) /\ Success(p) /\ Count(p) >= 1

\* ------------------------------------------------------------------- C3
\* C3: the delays run concurrently.  Whenever main is suspended in the join
\* every delay has been polled (its timer is armed or it is done); every
\* armed deadline lies within one delay duration of the start of the join; a
\* delay is past pending only once its own deadline is reached; while main
\* is suspended before one delay duration has passed, all N delays are
\* pending at the same time; and a
\* successful join with N >= 1 ends at most one delay duration after it
\* started and no earlier than one delay duration after the program started.
C3_Concurrent ==
    \A p \in Programs :
        /\ Suspended(p) =>
              \A k \in 1..Count(p) : tasks[p][k].st # "created"
        /\ \A k \in 1..Count(p) :
              /\ tasks[p][k].st # "created" =>
                    /\ tasks[p][k].deadline # NoDeadline
                    /\ tasks[p][k].deadline <= joinStart[p] + SleepSecs
              /\ tasks[p][k].st \in {"fired", "done"} =>
                    tasks[p][k].deadline <= now[p]
              /\ tasks[p][k].st = "pending" /\ Suspended(p) =>
                    now[p] <= tasks[p][k].deadline
        /\ Suspended(p) /\ now[p] < SleepSecs =>
              \A k \in 1..Count(p) : tasks[p][k].st = "pending"
        /\ Success(p) /\ Count(p) >= 1 =>
              /\ now[p] - joinStart[p] <= SleepSecs
              /\ now[p] >= SleepSecs
              /\ now[p] <= MaxSpawnTicks + SleepSecs

C3_Witness ==
    /\ Suspended("async_std")
    /\ Count("async_std") = MaxTasks
    /\ \A k \in 1..MaxTasks : tasks["async_std"][k].st = "pending"
    /\ now["async_std"] > joinStart["async_std"]
    /\ Success("tokio")
    /\ Count("tokio") = MaxTasks
    /\ now["tokio"] - joinStart["tokio"] < SleepSecs

\* ------------------------------------------------------------------- C4
\* C4: the two programs are functionally identical: once both have
\* terminated on the same argument list they have the same outcome and have
\* created the same number of delay operations.
C4_Identical ==
    (\A p \in Programs : pc[p] = "Terminated") =>
        /\ exit["tokio"] = exit["async_std"]
        /\ Count("tokio") = Count("async_std")

\* ------------------------------------------------------------------- C5
\* C5: with the argument absent, a program never gets past Parsing except
\* into Terminated(failure): it creates no delay, starts no join, never
\* succeeds, and until it has failed it can always take its next step.
C5_AbsentArgument ==
    ~HasArg =>
        \A p \in Programs :
            /\ pc[p] \in {"Start", "Parsing", "Terminated"}
            /\ tasks[p] = <<>>
            /\ ~woken[p]
            /\ pc[p] = "Terminated" => exit[p] = "failure"
            /\ pc[p] # "Terminated" => ENABLED (CollectArgs(p) \/ Parse(p))

C5_Witness ==
    ~HasArg /\ \A p \in Programs : Failure(p)

\* ------------------------------------------------------------------- C6
\* C6: with an argument 1 that is no integer (not of the form [+-]?digits),
\* a program never gets past Parsing except into Terminated(failure): no
\* default value is taken, no delay is created, and until it has failed it can
\* always take its next step.
C6_NotParseable ==
    HasArg /\ NotAnInteger(args[2]) =>
        \A p \in Programs :
            /\ pc[p] \in {"Start", "Parsing", "Terminated"}
            /\ tasks[p] = <<>>
            /\ num_tasks[p] = Zero
            /\ pc[p] = "Terminated" => exit[p] = "failure"
            /\ pc[p] # "Terminated" => ENABLED (CollectArgs(p) \/ Parse(p))

C6_Witness ==
    /\ HasArg
    /\ args[2] = <<"1", "a">>
    /\ \A p \in Programs : Failure(p)

\* ------------------------------------------------------------------- C7
\* C7: with task_count 0 the collection stays empty, main is never suspended
\* in the join, the program never fails, the join ends at the clock value at
\* which it started, and the program can always take a step until it has
\* terminated successfully.
C7_ZeroTasks ==
    \A p \in Programs :
        ParsedOK(p) /\ Eq(0, num_tasks[p]) =>
            /\ tasks[p] = <<>>
            /\ ~Suspended(p)
            /\ Success(p) => now[p] = joinStart[p]
            /\ ~Success(p) => ENABLED (LoopExit(p) \/ JoinPoll(p))

C7_Witness ==
    /\ HasArg
    /\ args[2] = <<"0">>
    /\ \A p \in Programs : Success(p) /\ tasks[p] = <<>>

\* ------------------------------------------------------------------- C8
\* C8: once a count N >= 0 is parsed, the loop index equals the number of
\* delays created, that number never exceeds N, every delay created has the
\* 10-second duration, and the collection handed to the join (and held at
\* successful termination) has exactly N delays.
C8_ExactlyN ==
    \A p \in Programs :
        ParsedOK(p) /\ ~num_tasks[p].neg =>
            /\ i[p] = Count(p)
            /\ AtMost(Count(p), num_tasks[p])
            /\ \A k \in 1..Count(p) : tasks[p][k].dur = SleepSecs
            /\ pc[p] \in {"Joining", "Terminated"} => Eq(Count(p), num_tasks[p])

C8_Witness ==
    /\ HasArg
    /\ args[2] = ToChars(ToMag(MaxTasks))
    /\ \A p \in Programs : pc[p] = "Joining" /\ Count(p) = MaxTasks

\* ------------------------------------------------------------------- C9
\* C9 as stated: a negative argument is rejected by the async-std harness
\* and is accepted by the tokio harness, where it produces no delay and a
\* successful termination with an immediate join.
C9_NegativeAsStated ==
    HasArg /\ NegativeArg(args[2]) =>
        /\ pc["async_std"] \in {"Start", "Parsing", "Terminated"}
        /\ pc["async_std"] = "Terminated" => exit["async_std"] = "failure"
        /\ tasks["async_std"] = <<>>
        /\ exit["tokio"] # "failure"
        /\ tasks["tokio"] = <<>>
        /\ ~Suspended("tokio")
        /\ Success("tokio") => now["tokio"] = joinStart["tokio"]

\* C9 as amended: a negative argument is rejected by the async-std harness;
\* the tokio harness accepts it when it is at least -2147483648 (no delay,
\* never suspended, successful termination with an immediate join) and
\* rejects it when it is below -2147483648.
C9_Negative ==
    HasArg /\ NegativeArg(args[2]) =>
        /\ pc["async_std"] \in {"Start", "Parsing", "Terminated"}
        /\ pc["async_std"] = "Terminated" => exit["async_std"] = "failure"
        /\ tasks["async_std"] = <<>>
        /\ tasks["tokio"] = <<>>
        /\ ~Suspended("tokio")
        /\ IF MagLeq(NegMag(args[2]), I32_MIN_MAG)
           THEN /\ exit["tokio"] # "failure"
                /\ pc["tokio"] \in {"Spawning", "Joining", "Terminated"} =>
                      num_tasks["tokio"] = [neg |-> TRUE, mag |-> NegMag(args[2])]
                /\ Success("tokio") => now["tokio"] = joinStart["tokio"]
                /\ ~Success("tokio") => ENABLED Step("tokio")
           ELSE /\ pc["tokio"] \in {"Start", "Parsing", "Terminated"}
                /\ pc["tokio"] = "Terminated" => exit["tokio"] = "failure"

C9_Witness ==
    /\ HasArg
    /\ args[2] = <<"-", "1">>
    /\ Failure("async_std")
    /\ Success("tokio")

\* ------------------------------------------------------------------ C10
\* C10: every step moves a program along Start -> Parsing -> Spawning ->
\* Joining -> Terminated, never back; a program enters Terminated(failure)
\* only from Parsing; from Spawning or Joining it only ever terminates in
\* success; and an exit status, once set, is never changed.
C10_Step ==
    \A p \in Programs :
        /\ pc'[p] # pc[p] =>
              <<pc[p], pc'[p]>> \in { <<"Start", "Parsing">>,
                                      <<"Parsing", "Spawning">>,
                                      <<"Parsing", "Terminated">>,
                                      <<"Spawning", "Joining">>,
                                      <<"Joining", "Terminated">> }
        /\ exit'[p] # exit[p] => exit[p] = "none" /\ pc'[p] = "Terminated"
        /\ pc'[p] = "Terminated" => exit'[p] # "none"
        /\ exit'[p] = "failure" /\ exit[p] # "failure" => pc[p] = "Parsing"
        /\ pc[p] \in {"Spawning", "Joining"} => exit'[p] # "failure"

C10_FailureOnlyInParsing == [][C10_Step]_vars

C10_Witness ==
    /\ HasArg
    /\ args[2] = <<"-", "0">>
    /\ Failure("async_std")
    /\ Success("tokio")
====
